---- MODULE Spec2Model ----
(***************************************************************************)
(* Model of sync2jira's PR reconciliation (sync2jira/downstream_pr.py) and *)
(* of the intermediary objects it consumes (sync2jira/intermediary.py).    *)
(*                                                                         *)
(* Text is modelled as a sequence of words: a Python str is a sequence of  *)
(* tokens, `w in s` is "the word w occurs in s", str.replace(w, '') drops  *)
(* every occurrence of w, and an f-string is the concatenation of its      *)
(* pieces.  The tracker (JIRA) is the state the client calls read and      *)
(* write: remote links, comments and status per ticket, and the result of  *)
(* the search for each key.  Every client call of an invocation is logged  *)
(* in `calls`, in order.                                                   *)
(***************************************************************************)
EXTENDS Integers, Sequences, FiniteSets, TLC

\* ------------------------------------------------------------------ bounds
\* number of sync_with_jira invocations in a behaviour
MaxRuns == 2
\* longest upstream body handed to a constructor, in characters
MaxContent == 2

\* ------------------------------------------------------------ the universe
Tickets == {"T1", "T2"}
\* the candidate keys the matcher extracted, in list order
AllKeys == <<"K1", "K2", "K3">>
\* the ticket a key names when the search finds exactly one
TicketOf == [k \in {"K1", "K2", "K3"} |-> IF k = "K1" THEN "T1" ELSE "T2"]
\* what client.search_issues can do for one key
SearchOutcomes == {"JIRAError", "zero", "one", "many"}

PrUrl == "url/pull/7"
OtherUrl == "url/pull/8"
Upstream == "org/repo"

\* ticket statuses and the tracker's workflow: the statuses reachable from each
Statuses == {"Open", "Review", "Done"}
Workflow == [s \in Statuses |->
               IF s = "Open" THEN {"Review", "Done"}
               ELSE IF s = "Review" THEN {"Done"}
               ELSE {}]

\* pr.suffix values: the word(s) naming the lifecycle event
Suffixes == {<<"open">>, <<"closed">>, <<"reopened">>, <<"merged">>,
             <<"closed", "merged">>}

\* upstream PRs: raw title and reporter login
Upstreams == {[title |-> <<"fix", "it">>, reporter |-> "alice"],
              [title |-> <<"[", "WIP", "]", "as", "mentioned">>, reporter |-> "bob"]}

\* config['mapping']: github login -> jira account
Mapping == [l \in {"bob"} |-> [jira |-> "acct1"]]

\* downstream routing entries (config['sync2jira']['map']['github'][upstream])
Routings == {[project |-> "PROJ"],
             [project |-> "PROJ", pr_updates |-> <<[merge_transition |-> "Done"]>>],
             [project |-> "PROJ", pr_updates |-> <<[link_transition |-> "Review"]>>],
             [project |-> "PROJ", pr_updates |-> <<[merge_transition |-> "Done"],
                                                  [link_transition |-> "Review"]>>]}

VARIABLES links, comments, status, search, routing, upstream,
          pr, config, outcome, calls, runNo, repeat,
          linkRuns, attachRun, obj

vars == <<links, comments, status, search, routing, upstream,
          pr, config, outcome, calls, runNo, repeat, linkRuns, attachRun, obj>>

\* ------------------------------------------------------------ text helpers
\* Python's `word in text`
Contains(word, text) == \E i \in 1..Len(text) : text[i] = word

\* Python's text.replace(word, '')
Remove(text, word) == SelectSeq(text, LAMBDA c : c # word)

\* ------------------------------------------------------ intermediary.py
\* the characters an upstream body is made of: ASCII, a backslash, non-ASCII
Chars == {"a", "\\", "e'"}
IsAscii(c) == c # "e'"

\* content.encode('ascii', errors='replace').decode('ascii')
AsciiReplace(content) == [i \in 1..Len(content) |->
                            IF IsAscii(content[i]) THEN content[i] ELSE "?"]

\* the scrub of both constructors: ASCII only, then backslashes removed
Scrub(content) == Remove(AsciiReplace(content), "\\")

\* an optional value: Python's None, or a value
NoneV == [some |-> FALSE]
Some(x) == [some |-> TRUE, val |-> x]

\* Python truthiness of an optional text or dict: None and the empty value are false
Truthy(o) == o.some /\ DOMAIN o.val # {}

\* config['sync2jira']['map'][source][upstream]; NoneV stands for the KeyError
MapLookup(cfg, source, up) ==
    IF source \in DOMAIN cfg.sync2jira.map /\ up \in DOMAIN cfg.sync2jira.map[source]
    THEN Some(cfg.sync2jira.map[source][up])
    ELSE NoneV

\* the routing both constructors store: the one supplied, else the configured one
Downstream(a) ==
    IF ~Truthy(a.downstream)
    THEN MapLookup(a.config, a.source, a.upstream)
    ELSE a.downstream

\* the property `title`: '[%s] %s' % (self.upstream, self._title)
Title(o) == <<"[", o.upstream, "]">> \o o._title

\* PR.__init__; the result is the object's attributes, or the exception raised
PRInit(a) ==
    LET base == [kind |-> "PR", source |-> a.source, jira_key |-> a.jira_key,
                 _title |-> a.title, url |-> a.url, upstream |-> a.upstream,
                 comments |-> a.comments, priority |-> a.priority,
                 content |-> IF Truthy(a.content)
                             THEN Some(Scrub(a.content.val)) ELSE NoneV,
                 reporter |-> a.reporter, assignee |-> a.assignee,
                 status |-> a.status, id |-> ToString(a.id),
                 suffix |-> a.suffix, match |-> a.match]
        down == Downstream(a)
    IN  IF ~down.some THEN [raised |-> "KeyError"]
        ELSE base @@ [downstream |-> down.val]

\* Issue.__init__; the result is the object's attributes, or the exception raised
IssueInit(a) ==
    LET base == [kind |-> "Issue", source |-> a.source, _title |-> a.title,
                 url |-> a.url, upstream |-> a.upstream, comments |-> a.comments,
                 tags |-> a.tags, fixVersion |-> a.fixVersion,
                 priority |-> a.priority]
        down == Downstream(a)
    IN  IF a.content.some
        THEN IF ~down.some THEN [raised |-> "KeyError"]
             ELSE base @@ [content |-> Some(Scrub(a.content.val)),
                           reporter |-> a.reporter, assignee |-> a.assignee,
                           status |-> a.status, id |-> ToString(a.id),
                           upstream_id |-> a.upstream_id, downstream |-> down.val]
        ELSE base

\* ------------------------------------------------------ downstream_pr.py
\* One invocation threads the tracker through its calls:
\*   st.links, st.comments, st.status  the tracker as the calls so far left it
\*   st.calls                          the client calls made, in order
\*   st.raised                         the exception that ended the invocation
Call(op, ticket, arg, why) == [op |-> op, ticket |-> ticket, arg |-> arg, why |-> why]
Log(st, c) == [st EXCEPT !.calls = Append(@, c)]

\* get_jira_username_from_github; NoneV is the implicit `return None`
get_jira_username_from_github(cfg, github_login) ==
    IF github_login \in DOMAIN cfg.mapping
    THEN Some(cfg.mapping[github_login].jira)
    ELSE NoneV

\* pr.title.replace(']', '').replace('[', '')
StripBrackets(title) == Remove(Remove(title, "]"), "[")

\* format_comment
format_comment(p, pr_suffix, cfg) ==
    LET ret == get_jira_username_from_github(cfg, p.reporter)
        reporter == IF ret.some THEN <<"[~accountid:", ret.val, "]">>
                    ELSE <<p.reporter>>
        head == <<"Merge", "request", "[">> \o StripBrackets(Title(p))
                    \o <<"|", p.url, "]", "was">>
    IN  IF Contains("closed", pr_suffix) THEN head \o <<"closed", ".">>
        ELSE IF Contains("reopened", pr_suffix) THEN head \o <<"reopened", ".">>
        ELSE IF Contains("merged", pr_suffix) THEN head \o <<"merged", "!">>
        ELSE reporter \o <<"mentioned", "this", "issue", "in", "merge", "request", "[">>
                 \o StripBrackets(Title(p)) \o <<"|", " ", p.url, "]", ".">>

\* issue_link_exists: client.remote_links(existing), then the URL comparison
issue_link_exists(st, existing, p) ==
    \E issue_link \in st.links[existing] : issue_link.url = p.url

\* comment_exists: client.comments(existing), then the body comparison
comment_exists(st, existing, new_comment) ==
    \E comment \in st.comments[existing] : new_comment = comment

\* d_issue.attach_link: the tracker stores the remote link as given
attach_link(st, existing, remote_link) ==
    Log([st EXCEPT !.links[existing] = @ \cup {remote_link}],
        Call("attach_link", existing, remote_link.url, "link"))

\* client.add_comment: the tracker stores the body as given
add_comment(st, existing, body) ==
    Log([st EXCEPT !.comments[existing] = @ \cup {body}],
        Call("add_comment", existing, body, "comment"))

\* d_issue.change_status: the ticket moves to the status, or TransitionError
\* when the workflow does not reach it from the ticket's current status
change_status(st, existing, target, why) ==
    LET st1 == Log(st, Call("change_status", existing, target, why))
    IN  IF target \in Workflow[st.status[existing]]
        THEN [st1 EXCEPT !.status[existing] = target]
        ELSE [st1 EXCEPT !.raised = "TransitionError"]

\* pr.downstream.get('pr_updates', default)
PrUpdates(p) == IF "pr_updates" \in DOMAIN p.downstream
                THEN p.downstream.pr_updates ELSE <<>>

\* any(transition_type in item for item in updates)
OptsIn(updates, transition_type) ==
    \E i \in 1..Len(updates) : transition_type \in DOMAIN updates[i]

\* update_transition: nothing catches what change_status raises
update_transition(st, existing, p, transition_type) ==
    LET link_status == SelectSeq(PrUpdates(p),
                                 LAMBDA transition : transition_type \in DOMAIN transition)
    IN  IF link_status # <<>>
        THEN change_status(st, existing, link_status[1][transition_type], transition_type)
        ELSE st

\* a faulty variant of MergeCondition: the event's suffix is not consulted
MergeConditionAnyEvent(p, updates) ==
    OptsIn(updates, "merge_transition")

\* the condition of the merge transition (line 124)
MergeCondition(p, updates) ==
    OptsIn(updates, "merge_transition") /\ Contains("merged", p.suffix)

\* a faulty variant of LinkCondition: a link that already exists does not suppress it
LinkConditionEveryMention(updates, new_comment, exists) ==
    OptsIn(updates, "link_transition") /\ Contains("mentioned", new_comment)

\* the condition of the link transition (lines 130-131)
LinkCondition(updates, new_comment, exists) ==
    OptsIn(updates, "link_transition") /\ Contains("mentioned", new_comment) /\ ~exists

\* update_jira_issue
update_jira_issue(st, existing, p, cfg) ==
    LET updates == PrUpdates(p)
        new_comment == format_comment(p, p.suffix, cfg)
        st0 == Log(Log(st, Call("remote_links", existing, p.url, "read")),
                   Call("comments", existing, new_comment, "read"))
        exists == issue_link_exists(st, existing, p)
        comment_exist == comment_exists(st, existing, new_comment)
        st1 == IF ~exists
               THEN attach_link(st0, existing,
                                [url |-> p.url, title |-> <<"[PR]">> \o Title(p)])
               ELSE st0
        st2 == IF ~comment_exist THEN add_comment(st1, existing, new_comment) ELSE st1
        st3 == IF MergeCondition(p, updates)
               THEN update_transition(st2, existing, p, "merge_transition")
               ELSE st2
    IN  IF st3.raised # "no" THEN st3
        ELSE IF LinkCondition(updates, new_comment, exists)
        THEN update_transition(st3, existing, p, "link_transition")
        ELSE st3

\* client.search_issues(f"Key = {jira_key}"): the response, when it is one
SearchResponse(found, jira_key) ==
    IF found = "zero" THEN <<>>
    ELSE IF found = "one" THEN <<TicketOf[jira_key]>>
    ELSE <<"T1", "T2">>

\* a faulty variant of SyncLoop: only an empty response is skipped, so an ambiguous one
\* has its first ticket updated
RECURSIVE SyncLoopFirstOfMany(_, _, _, _, _)
SyncLoopFirstOfMany(st, srch, p, cfg, i) ==
    IF i > Len(p.jira_key) THEN st
    ELSE LET jira_key == p.jira_key[i]
             st1 == Log(st, Call("search_issues", "-", jira_key, "read"))
             response == SearchResponse(srch[jira_key], jira_key)
         IN  IF srch[jira_key] = "JIRAError"
             THEN SyncLoopFirstOfMany(st1, srch, p, cfg, i + 1)
             ELSE IF Len(response) = 0
             THEN SyncLoopFirstOfMany(st1, srch, p, cfg, i + 1)
             ELSE LET st2 == update_jira_issue(st1, response[1], p, cfg)
                  IN  IF st2.raised # "no" THEN st2
                      ELSE SyncLoopFirstOfMany(st2, srch, p, cfg, i + 1)

\* the loop of sync_with_jira over pr.jira_key, from position i
RECURSIVE SyncLoop(_, _, _, _, _)
SyncLoop(st, srch, p, cfg, i) ==
    IF i > Len(p.jira_key) THEN st
    ELSE LET jira_key == p.jira_key[i]
             st1 == Log(st, Call("search_issues", "-", jira_key, "read"))
             response == SearchResponse(srch[jira_key], jira_key)
         IN  IF srch[jira_key] = "JIRAError" THEN SyncLoop(st1, srch, p, cfg, i + 1)
             ELSE IF Len(response) = 0 \/ Len(response) > 1
             THEN SyncLoop(st1, srch, p, cfg, i + 1)
             ELSE LET st2 == update_jira_issue(st1, response[1], p, cfg)
                  IN  IF st2.raised # "no" THEN st2
                      ELSE SyncLoop(st2, srch, p, cfg, i + 1)

\* a faulty variant of sync_with_jira: the testing flag is not consulted
sync_with_jira_untested(st, srch, p, cfg) ==
    IF p.match = <<>> THEN st
    ELSE SyncLoop(Log(st, Call("get_jira_client", "-", p.url, "client")), srch, p, cfg, 1)

\* sync_with_jira
sync_with_jira(st, srch, p, cfg) ==
    IF cfg.sync2jira.testing THEN st
    ELSE IF p.match = <<>> THEN st
    ELSE SyncLoop(Log(st, Call("get_jira_client", "-", p.url, "client")), srch, p, cfg, 1)

\* --------------------------------------------------------------- the system
\* the config dict of one invocation
Config(testing, route) ==
    [sync2jira |-> [testing |-> testing,
                    map |-> [s \in {"github"} |-> [u \in {Upstream} |-> route]]],
     mapping |-> Mapping]

\* the PR object PR.from_github builds for one event of the upstream PR
EventPR(up, suffix, match, cfg) ==
    PRInit([source |-> "github", jira_key |-> match, title |-> up.title,
            url |-> PrUrl, upstream |-> Upstream, config |-> cfg,
            comments |-> <<>>, priority |-> NoneV, content |-> NoneV,
            reporter |-> up.reporter, assignee |-> <<>>, status |-> NoneV,
            id |-> 7, suffix |-> suffix, match |-> match, downstream |-> NoneV])

\* remote links a ticket may already carry: another PR's, and one to this PR
OtherLink == [url |-> OtherUrl, title |-> <<"[PR]", "other">>]
PriorLink == [url |-> PrUrl, title |-> <<"added", "by", "hand">>]

CallsOf(log, op) == {i \in 1..Len(log) : log[i].op = op}

Init ==
    /\ links \in [Tickets -> {{}, {OtherLink}, {PriorLink}}]
    /\ comments = [t \in Tickets |-> {}]
    /\ status \in [Tickets -> {"Open", "Done"}]
    /\ search \in [DOMAIN TicketOf -> SearchOutcomes]
    /\ routing \in Routings
    /\ upstream \in Upstreams
    /\ pr = NoneV
    /\ config = NoneV
    /\ outcome = "none"
    /\ calls = <<>>
    /\ runNo = 0
    /\ repeat = FALSE
    /\ linkRuns = [t \in Tickets |-> {}]
    /\ attachRun = [t \in Tickets |-> 0]
    /\ obj = NoneV

\* one invocation of sync_with_jira for an event of the upstream PR: the event's
\* suffix, the run's testing flag and the keys the matcher found are its inputs
Invoke(limit) ==
    /\ runNo < limit
    /\ \E suffix \in Suffixes, testing \in BOOLEAN, match \in {<<>>, AllKeys} :
       \E cfg \in {Config(testing, routing)} :
       \E p \in {EventPR(upstream, suffix, match, cfg)} :
       \E st \in {sync_with_jira([links |-> links, comments |-> comments,
                                  status |-> status, calls |-> <<>>, raised |-> "no"],
                                 search, p, cfg)} :
         /\ pr' = p
         /\ config' = cfg
         /\ repeat' = (runNo > 0 /\ pr = p /\ config = cfg)
         /\ links' = st.links
         /\ comments' = st.comments
         /\ status' = st.status
         /\ calls' = st.calls
         /\ outcome' = IF st.raised = "no" THEN "returned" ELSE st.raised
         /\ runNo' = runNo + 1
         /\ linkRuns' = [t \in Tickets |->
               IF \E i \in CallsOf(st.calls, "change_status") :
                     st.calls[i].ticket = t /\ st.calls[i].why = "link_transition"
               THEN linkRuns[t] \cup {runNo + 1} ELSE linkRuns[t]]
         /\ attachRun' = [t \in Tickets |->
               IF attachRun[t] = 0 /\ \E i \in CallsOf(st.calls, "attach_link") :
                                        st.calls[i].ticket = t
               THEN runNo + 1 ELSE attachRun[t]]
    /\ UNCHANGED <<search, routing, upstream, obj>>

\* a behaviour of Spec is one invocation against any tracker
SyncWithJira == Invoke(1)

Next == SyncWithJira

Spec == Init /\ [][Next]_vars

\* successive invocations for the same upstream PR (an event each), against a
\* tracker whose searches find one ticket or fail
InitRepeat ==
    /\ Init
    /\ search \in [DOMAIN TicketOf -> {"JIRAError", "one"}]
    /\ links \in {[t \in Tickets |-> {}], [t \in Tickets |-> {OtherLink}],
                  [t \in Tickets |-> IF t = "T1" THEN {PriorLink} ELSE {}]}

SyncAgain == Invoke(MaxRuns)

NextRepeat == SyncAgain

SpecRepeat == InitRepeat /\ [][NextRepeat]_vars

\* ------------------------------------------- construction of intermediaries
\* upstream bodies: None, or a text of at most MaxContent characters
RECURSIVE Texts(_)
Texts(n) == IF n = 0 THEN {<<>>}
            ELSE Texts(n - 1) \cup
                 {Append(t, c) : t \in {x \in Texts(n - 1) : Len(x) = n - 1}, c \in Chars}

Contents == {NoneV} \cup {Some(t) : t \in Texts(MaxContent)}

\* the routing argument: not supplied, an empty dict, or a routing
Supplied == {NoneV, Some(<<>>), Some([project |-> "OTHER"])}

ConsConfig == Config(FALSE, [project |-> "PROJ"])

InitCons ==
    /\ links = [t \in Tickets |-> {}]
    /\ comments = [t \in Tickets |-> {}]
    /\ status = [t \in Tickets |-> "Open"]
    /\ search = [k \in DOMAIN TicketOf |-> "zero"]
    /\ routing = [project |-> "PROJ"]
    /\ upstream \in Upstreams
    /\ pr = NoneV
    /\ config = NoneV
    /\ outcome = "none"
    /\ calls = <<>>
    /\ runNo = 0
    /\ repeat = FALSE
    /\ linkRuns = [t \in Tickets |-> {}]
    /\ attachRun = [t \in Tickets |-> 0]
    /\ obj = NoneV

\* Issue(...): obj records the arguments and what the constructor left
ConstructIssue ==
    /\ ~obj.some
    /\ \E content \in Contents, downstream \in Supplied,
          up \in {Upstream, "org/unmapped"}, st \in {"Open", "Closed"} :
         LET a == [source |-> "github", title |-> upstream.title, url |-> PrUrl,
                   upstream |-> up, comments |-> <<>>, config |-> ConsConfig,
                   tags |-> <<>>, fixVersion |-> <<>>, priority |-> NoneV,
                   content |-> content, reporter |-> upstream.reporter,
                   assignee |-> <<>>, status |-> Some(st), id |-> 7,
                   upstream_id |-> 7, downstream |-> downstream]
         IN  obj' = [some |-> TRUE, args |-> a, result |-> IssueInit(a)]
    /\ UNCHANGED <<links, comments, status, search, routing, upstream,
                   pr, config, outcome, calls, runNo, repeat, linkRuns, attachRun>>

\* PR(...): obj records the arguments and what the constructor left
ConstructPR ==
    /\ ~obj.some
    /\ \E content \in Contents, downstream \in Supplied,
          up \in {Upstream, "org/unmapped"}, suffix \in Suffixes :
         LET a == [source |-> "github", jira_key |-> AllKeys, title |-> upstream.title,
                   url |-> PrUrl, upstream |-> up, config |-> ConsConfig,
                   comments |-> <<>>, priority |-> NoneV, content |-> content,
                   reporter |-> upstream.reporter, assignee |-> <<>>,
                   status |-> NoneV, id |-> 7, suffix |-> suffix,
                   match |-> AllKeys, downstream |-> downstream]
         IN  obj' = [some |-> TRUE, args |-> a, result |-> PRInit(a)]
    /\ UNCHANGED <<links, comments, status, search, routing, upstream,
                   pr, config, outcome, calls, runNo, repeat, linkRuns, attachRun>>

NextCons == ConstructIssue \/ ConstructPR

SpecCons == InitCons /\ [][NextCons]_vars

\* ================================================================ claims
\* what the last invocation did
Ran == runNo > 0
Testing == config.sync2jira.testing
InLoop == Ran /\ ~Testing /\ pr.match # <<>>
Mutations == {i \in 1..Len(calls) :
                calls[i].op \in {"attach_link", "add_comment", "change_status"}}
Transitions(why) == {i \in CallsOf(calls, "change_status") : calls[i].why = why}
Searches(key) == {i \in CallsOf(calls, "search_issues") : calls[i].arg = key}
KeysOf(p) == {p.jira_key[i] : i \in 1..Len(p.jira_key)}
Resolves(key) == search[key] = "one"
Visited(t) == \E i \in CallsOf(calls, "remote_links") : calls[i].ticket = t
FirstConfigured(p, why) ==
    (SelectSeq(PrUpdates(p), LAMBDA item : why \in DOMAIN item))[1][why]

\* the templates of the spec's section 6, for the PR p
LifecycleTemplate(p, word, mark) ==
    <<"Merge", "request", "[">> \o StripBrackets(Title(p))
        \o <<"|", p.url, "]", "was", word, mark>>
MergedTemplate(p) == LifecycleTemplate(p, "merged", "!")

\* C1: an invocation that repeats the previous one (same PR, same config, nothing
\* else touching the tracker in between) attaches no link and adds no comment.
C1_SecondRunAddsNothing ==
    (Ran /\ repeat) =>
        CallsOf(calls, "attach_link") \cup CallsOf(calls, "add_comment") = {}

\* C2: a link transition is requested on a ticket only when pr_updates has a
\* link_transition entry, the suffix contains none of closed / reopened / merged,
\* and the ticket had no remote link with the PR's URL before the invocation.
C2_LinkTransitionOnlyOnFirstMention ==
    [][\A t \in Tickets :
         (\E i \in 1..Len(calls') :
              /\ calls'[i].op = "change_status"
              /\ calls'[i].why = "link_transition"
              /\ calls'[i].ticket = t)
         => /\ OptsIn(PrUpdates(pr'), "link_transition")
            /\ ~Contains("closed", pr'.suffix)
            /\ ~Contains("reopened", pr'.suffix)
            /\ ~Contains("merged", pr'.suffix)
            /\ ~\E l \in links[t] : l.url = pr'.url]_vars

\* C3: when every candidate key's search finds 0 tickets, more than 1, or raises
\* JIRAError, the invocation makes no mutating call, and (when the loop is
\* entered) every candidate key is queried exactly once.
C3_NoMatchNoMutation ==
    (Ran /\ \A k \in KeysOf(pr) : ~Resolves(k)) =>
        /\ Mutations = {}
        /\ InLoop => /\ \A k \in KeysOf(pr) : Cardinality(Searches(k)) = 1
                     /\ outcome = "returned"

C3_Witness ==
    /\ InLoop
    /\ pr.jira_key = AllKeys
    /\ search = [k \in DOMAIN TicketOf |->
                   IF k = "K1" THEN "JIRAError" ELSE IF k = "K2" THEN "zero" ELSE "many"]
    /\ Cardinality(CallsOf(calls, "search_issues")) = 3

\* C4: in test mode, or with an empty match, the invocation returns with no call
\* at all: no client is obtained and the tracker is neither read nor written;
\* whenever calls are made, obtaining the client is the first and the test-mode
\* and empty-match checks have both passed.
C4_ShortCircuit ==
    Ran =>
        /\ (Testing \/ pr.match = <<>>) => (calls = <<>> /\ outcome = "returned")
        /\ calls # <<>> => (calls[1].op = "get_jira_client" /\ InLoop)

C4_Witness ==
    /\ Ran /\ Testing /\ pr.match = AllKeys
    /\ \E k \in KeysOf(pr) : Resolves(k)
    /\ calls = <<>>

\* C5 (as stated): a merge transition is requested only if pr_updates has a
\* merge_transition entry and the invocation's comment is the "was merged!"
\* template, and the status requested is the one configured.
C5_MergeTransitionOnlyWithMergedComment ==
    \A i \in Transitions("merge_transition") :
        /\ OptsIn(PrUpdates(pr), "merge_transition")
        /\ format_comment(pr, pr.suffix, config) = MergedTemplate(pr)
        /\ calls[i].arg = FirstConfigured(pr, "merge_transition")

\* C5 (amended): a merge transition is requested only if pr_updates has a
\* merge_transition entry and pr.suffix contains "merged" (the comment of such an
\* invocation is the "was merged!" template unless the suffix also contains
\* "closed" or "reopened"), and the status requested is the one configured.
C5_MergeTransitionOnlyOnMergedSuffix ==
    \A i \in Transitions("merge_transition") :
        /\ OptsIn(PrUpdates(pr), "merge_transition")
        /\ Contains("merged", pr.suffix)
        /\ (~Contains("closed", pr.suffix) /\ ~Contains("reopened", pr.suffix))
              => format_comment(pr, pr.suffix, config) = MergedTemplate(pr)
        /\ calls[i].arg = FirstConfigured(pr, "merge_transition")

C5_Witness ==
    /\ Ran
    /\ pr.suffix = <<"merged">>
    /\ \E i \in Transitions("merge_transition") :
          calls[i].arg = "Done" /\ status[calls[i].ticket] = "Done"

\* C6: a candidate key whose lookup fails or is ambiguous is queried once and
\* abandoned without a mutation (the next call, if any, is the next key's search),
\* and every candidate key after it is still queried exactly once and, when it
\* resolves to one ticket, has that ticket updated.
C6_FailedLookupIsolated ==
    InLoop =>
        \A j \in 1..Len(pr.jira_key) :
            (~Resolves(pr.jira_key[j]) /\ Searches(pr.jira_key[j]) # {}) =>
                /\ Cardinality(Searches(pr.jira_key[j])) = 1
                /\ \A i \in Searches(pr.jira_key[j]) :
                      i < Len(calls) => calls[i + 1].op = "search_issues"
                /\ \A m \in (j + 1)..Len(pr.jira_key) :
                      /\ Cardinality(Searches(pr.jira_key[m])) = 1
                      /\ Resolves(pr.jira_key[m]) => Visited(TicketOf[pr.jira_key[m]])

\* C7: a TransitionError raised by change_status does not escape sync_with_jira.
C7_TransitionErrorRecovered ==
    Ran => outcome # "TransitionError"

\* C8: over the invocations for one PR, the link transition is requested on a
\* ticket in at most one invocation, once, and that invocation is the one that
\* first attached the PR's remote link to the ticket.
C8_LinkTransitionAtMostOnce ==
    \A t \in Tickets :
        /\ Cardinality(linkRuns[t]) <= 1
        /\ linkRuns[t] # {} => linkRuns[t] = {attachRun[t]}
        /\ Cardinality({i \in Transitions("link_transition") : calls[i].ticket = t}) <= 1

C8_Witness ==
    /\ runNo = 2
    /\ pr.suffix = <<"open">>
    /\ OptsIn(PrUpdates(pr), "link_transition")
    /\ \E t \in Tickets : linkRuns[t] = {1} /\ attachRun[t] = 1 /\ Visited(t)

\* C9: every Issue and PR constructed has reporter, assignee, status, id and
\* downstream set, downstream being the routing supplied or else the configured
\* one, and content either null or the scrubbed text (ASCII, no backslash).
Constructed == obj.some /\ "kind" \in DOMAIN obj.result
C9_FullyPopulated ==
    Constructed =>
        /\ {"reporter", "assignee", "status", "id", "downstream", "content"}
              \subseteq DOMAIN obj.result
        /\ obj.result.downstream =
              (IF Truthy(obj.args.downstream) THEN obj.args.downstream.val
               ELSE ConsConfig.sync2jira.map[obj.args.source][obj.args.upstream])
        /\ obj.result.content.some =>
              \A i \in 1..Len(obj.result.content.val) :
                  obj.result.content.val[i] \in {"a", "?"}

\* C10: every candidate key that resolves to exactly one ticket has that ticket
\* updated in the same invocation: its link and its comment are on the ticket
\* when the invocation ends.
C10_EveryResolvedTicketUpdated ==
    InLoop =>
        \A k \in KeysOf(pr) : Resolves(k) =>
            /\ Visited(TicketOf[k])
            /\ \E l \in links[TicketOf[k]] : l.url = pr.url
            /\ format_comment(pr, pr.suffix, config) \in comments[TicketOf[k]]

====
